---------------------------- MODULE Spec2Model ----------------------------
(***************************************************************************)
(* A model of the Google Classroom attachment downloader extension:        *)
(*   background.js  the download orchestrator, the URL resolver and the    *)
(*                  two sanitizers;                                        *)
(*   content.js     the link scanner;                                      *)
(*   popup.js       the popup that asks for a scan and sends a batch.      *)
(* Strings are TLC strings; a character is a string of length one.         *)
(***************************************************************************)
EXTENDS Integers, Sequences, FiniteSets, TLC

VARIABLES
    url,                \* argument of convertToDownloadUrl / sanitizeFilename
    filename,           \* argument of sanitizeFilename
    name,               \* argument of sanitizeFolderName
    downloadUrl,        \* convertToDownloadUrl(url)
    sanitizedFilename,  \* sanitizeFilename(filename, url)
    resanitized,        \* sanitizeFilename(sanitizedFilename, url)
    folderName,         \* sanitizeFolderName(name)
    refolded,           \* sanitizeFolderName(folderName)
    calls,              \* the calls made so far
    page,               \* the tab: its URL, its anchors in document order, its titles
    view,               \* popup.js: which of the popup's panels is shown
    scanPending,        \* a SCAN_FILES message is on its way to the content script
    scanResponse,       \* the content script's responses on their way to the popup
    detectedFiles,      \* popup.js: detectedFiles
    assignmentName,     \* popup.js: assignmentName
    checked,            \* popup.js: the indexes of the checked checkboxes
    btnDisabled,        \* popup.js: downloadBtn.disabled
    outbox,             \* the DOWNLOAD_ATTACHMENTS messages the popup has sent
    awaitingResponse,   \* popup.js: the downloadSelected calls waiting at their await
    message,            \* background.js: the message delivered to the listener
    pc,                 \* background.js: where handleDownloadRequest stands
    sessionFolder,      \* handleDownloadRequest: sessionFolder
    results,            \* handleDownloadRequest: results
    idx,                \* handleDownloadRequest: the place in attachments of the for loop
    outstanding,        \* the chrome.downloads.download calls not yet called back
    downloads,          \* every chrome.downloads.download call made, in order
    settled,            \* the callback that has run and that the loop has not yet seen
    callbacks,          \* every callback of the download manager, in order
    response,           \* what sendResponse was given
    error,              \* the message of the error handleDownloadRequest rejected with
    nextId,             \* the download manager's next download id
    now,                \* the clock: what new Date() holds
    pathInput,          \* popup.js: the value of the downloadPath input
    pathStatus,         \* popup.js: the text of pathStatus
    statusTimers,       \* popup.js: the setTimeout callbacks of saveDownloadPath not yet run
    settingsRequests,   \* the path messages on their way to the background listener
    settingsReplies,    \* what became of them, on its way back to the popup
    reportedSaved,      \* the path last reported as saved, "" when none was
    savedBeforeGet,     \* reportedSaved when the popup last asked for the path
    getLog,             \* what each request for the path came back with
    opens               \* how many times the popup was opened

pureVars == <<url, filename, name, downloadUrl, sanitizedFilename,
              resanitized, folderName, refolded, calls>>

scanVars == <<page, view, scanPending, scanResponse, detectedFiles,
              assignmentName, checked, btnDisabled, outbox, awaitingResponse>>

batchVars == <<message, pc, sessionFolder, results, idx, outstanding, downloads,
               settled, callbacks, response, error, nextId, now>>

settingsVars == <<pathInput, pathStatus, statusTimers, settingsRequests, settingsReplies,
                  reportedSaved, savedBeforeGet, getLog, opens>>

vars == <<pureVars, scanVars, batchVars, settingsVars>>

-----------------------------------------------------------------------------
(* Strings *)

Ch(s, i) == SubSeq(s, i, i)

MinOf(S) == CHOOSE x \in S : \A y \in S : x <= y
MaxOf(S) == CHOOSE x \in S : \A y \in S : x >= y

\* the sequences over S of length n at most
RECURSIVE SeqsUpTo(_, _)
SeqsUpTo(S, n) ==
    IF n = 0 THEN {<<>>}
    ELSE LET shorter == SeqsUpTo(S, n - 1)
         IN  shorter \cup { Append(q, x) : q \in shorter, x \in S }

CharsOf(s) == { Ch(s, i) : i \in 1..Len(s) }

\* the concatenation of the strings p[lo], ..., p[hi]
RECURSIVE FlattenRange(_, _, _)
FlattenRange(p, lo, hi) ==
    IF lo > hi THEN ""
    ELSE IF lo = hi THEN p[lo]
    ELSE LET mid == (lo + hi) \div 2
         IN  FlattenRange(p, lo, mid) \o FlattenRange(p, mid + 1, hi)

Flatten(p) == FlattenRange(p, 1, Len(p))

\* String.prototype.repeat
Repeat(s, n) == Flatten([i \in 1..n |-> s])

\* String.prototype.indexOf, 1-based; 0 when pat does not occur
IndexOf(s, pat) ==
    LET at == { i \in 1..(Len(s) - Len(pat) + 1) : SubSeq(s, i, i + Len(pat) - 1) = pat }
    IN  IF at = {} THEN 0 ELSE MinOf(at)

\* String.prototype.includes
Includes(s, pat) == IndexOf(s, pat) > 0

\* String.prototype.endsWith
EndsWith(s, suf) ==
    /\ Len(suf) <= Len(s)
    /\ SubSeq(s, Len(s) - Len(suf) + 1, Len(s)) = suf

\* String.prototype.substring(0, n)
Substring0(s, n) == SubSeq(s, 1, IF n < Len(s) THEN n ELSE Len(s))

LowerLetters == "abcdefghijklmnopqrstuvwxyz"
UpperLetters == "ABCDEFGHIJKLMNOPQRSTUVWXYZ"
Digits == "0123456789"

\* the class [a-zA-Z0-9]
Alnum == CharsOf(LowerLetters) \cup CharsOf(UpperLetters) \cup CharsOf(Digits)

\* the class \s, as far as the model's alphabet goes
Whitespace == {" ", "\t", "\n", "\r"}

LowerOf == [c \in CharsOf(UpperLetters) |-> Ch(LowerLetters, IndexOf(UpperLetters, c))]

LowerCh(c) == IF c \in DOMAIN LowerOf THEN LowerOf[c] ELSE c

\* String.prototype.toLowerCase
ToLowerCase(s) == Flatten([i \in 1..Len(s) |-> LowerCh(Ch(s, i))])

\* s.replace(/[set]/g, rep)
ReplaceEach(s, set, rep) ==
    Flatten([i \in 1..Len(s) |-> IF Ch(s, i) \in set THEN rep ELSE Ch(s, i)])

\* s.replace(/\s+/g, " "): every maximal run of whitespace becomes one space
CollapseWhitespace(s) ==
    Flatten([i \in 1..Len(s) |->
        IF Ch(s, i) \notin Whitespace THEN Ch(s, i)
        ELSE IF i > 1 /\ Ch(s, i - 1) \in Whitespace THEN ""
        ELSE " "])

\* s.replace(/^[set]+|[set]+$/g, ""): strip the characters of set from both ends
StripEnds(s, set) ==
    LET keep == { i \in 1..Len(s) : Ch(s, i) \notin set }
    IN  IF keep = {} THEN "" ELSE SubSeq(s, MinOf(keep), MaxOf(keep))

\* String.prototype.trim
Trim(s) == StripEnds(s, Whitespace)

\* the longest prefix of s, from position i on, made of characters outside stop
RunOutside(s, i, stop) ==
    LET ends == { j \in i..Len(s) : Ch(s, j) \in stop }
    IN  SubSeq(s, i, IF ends = {} THEN Len(s) ELSE MinOf(ends) - 1)

\* url.match(/<lit>([^<stop>]+)/): the capture group of the leftmost match, or
\* NoMatch. A match needs lit followed by at least one character outside stop.
NoMatch == <<>>

\* the same with ([^<stop>]*): the literal alone matches, with an empty capture
MatchAfterEmpty(s, lit, stop) ==
    LET at == { i \in 1..(Len(s) - Len(lit) + 1) : SubSeq(s, i, i + Len(lit) - 1) = lit }
    IN  IF at = {} THEN NoMatch
        ELSE <<RunOutside(s, MinOf(at) + Len(lit), stop)>>

MatchAfter(s, lit, stop) ==
    LET at == { i \in 1..(Len(s) - Len(lit)) :
                  /\ SubSeq(s, i, i + Len(lit) - 1) = lit
                  /\ Ch(s, i + Len(lit)) \notin stop }
    IN  IF at = {} THEN NoMatch
        ELSE <<RunOutside(s, MinOf(at) + Len(lit), stop)>>

-----------------------------------------------------------------------------
(* background.js: URL conversion *)

DriveFileLit == "drive.google.com/file/d/"
DriveOpenLit == "drive.google.com/open?id="
DocsLit == "docs.google.com/document/d/"
SheetsLit == "docs.google.com/spreadsheets/d/"
SlidesLit == "docs.google.com/presentation/d/"

driveFileMatch(u) == MatchAfter(u, DriveFileLit, {"/"})
driveOpenMatch(u) == MatchAfter(u, DriveOpenLit, {"&"})
docsMatch(u) == MatchAfter(u, DocsLit, {"/"})
sheetsMatch(u) == MatchAfter(u, SheetsLit, {"/"})
slidesMatch(u) == MatchAfter(u, SlidesLit, {"/"})

\* the same rules with the three document-editor rules tried first
convertEditorsFirst(u) ==
    IF docsMatch(u) # NoMatch
      THEN "https://docs.google.com/document/d/" \o docsMatch(u)[1] \o "/export?format=docx"
    ELSE IF sheetsMatch(u) # NoMatch
      THEN "https://docs.google.com/spreadsheets/d/" \o sheetsMatch(u)[1] \o "/export?format=xlsx"
    ELSE IF slidesMatch(u) # NoMatch
      THEN "https://docs.google.com/presentation/d/" \o slidesMatch(u)[1] \o "/export/pptx"
    ELSE IF driveFileMatch(u) # NoMatch
      THEN "https://drive.google.com/uc?export=download&id=" \o driveFileMatch(u)[1]
    ELSE IF driveOpenMatch(u) # NoMatch
      THEN "https://drive.google.com/uc?export=download&id=" \o driveOpenMatch(u)[1]
    ELSE u

convertToDownloadUrl(u) ==
    IF driveFileMatch(u) # NoMatch
      THEN "https://drive.google.com/uc?export=download&id=" \o driveFileMatch(u)[1]
    ELSE IF driveOpenMatch(u) # NoMatch
      THEN "https://drive.google.com/uc?export=download&id=" \o driveOpenMatch(u)[1]
    ELSE IF docsMatch(u) # NoMatch
      THEN "https://docs.google.com/document/d/" \o docsMatch(u)[1] \o "/export?format=docx"
    ELSE IF sheetsMatch(u) # NoMatch
      THEN "https://docs.google.com/spreadsheets/d/" \o sheetsMatch(u)[1] \o "/export?format=xlsx"
    ELSE IF slidesMatch(u) # NoMatch
      THEN "https://docs.google.com/presentation/d/" \o slidesMatch(u)[1] \o "/export/pptx"
    ELSE u

-----------------------------------------------------------------------------
(* background.js: sanitization *)

\* the class [<>:"/\\|?*]
InvalidChars == {"<", ">", ":", "\"", "/", "\\", "|", "?", "*"}

FolderMaxLen == 100
FileMaxLen == 200

sanitizeFolderName(n) ==
    IF n = "" THEN "Classroom_Download"
    ELSE LET cut == Substring0(Trim(CollapseWhitespace(ReplaceEach(n, InvalidChars, " "))),
                               FolderMaxLen)
         IN  IF cut = "" THEN "Classroom_Download" ELSE cut

\* the alphanumeric run that ends s
TrailingAlnum(s) ==
    LET stops == { i \in 1..Len(s) : Ch(s, i) \notin Alnum }
    IN  SubSeq(s, (IF stops = {} THEN 0 ELSE MaxOf(stops)) + 1, Len(s))

\* /\.[a-zA-Z0-9]{2,5}$/.test(f)
hasExtension(f) ==
    \E k \in 2..5 :
        /\ Len(f) >= k + 1
        /\ Ch(f, Len(f) - k) = "."
        /\ \A i \in (Len(f) - k + 1)..Len(f) : Ch(f, i) \in Alnum

\* f.match(/\.([a-zA-Z0-9]+)$/): the whole match, "" when there is none
extMatch(f) ==
    LET run == TrailingAlnum(f)
    IN  IF run # "" /\ Len(f) > Len(run) /\ Ch(f, Len(f) - Len(run)) = "."
        THEN "." \o run ELSE ""

\* the extension sanitizeFilename gives the result
extOf(f, u) ==
    IF hasExtension(f) THEN extMatch(f)
    ELSE IF Includes(u, "docs.google.com/document") THEN ".docx"
    ELSE IF Includes(u, "docs.google.com/spreadsheets") THEN ".xlsx"
    ELSE IF Includes(u, "docs.google.com/presentation") THEN ".pptx"
    ELSE ""

nameWithoutExt(f) ==
    IF hasExtension(f) /\ extMatch(f) # ""
    THEN SubSeq(f, 1, Len(f) - Len(extMatch(f)))
    ELSE f

\* the same with only whitespace stripped from the ends
sanitizedNameKeepUnderscores(f) ==
    LET cut == Substring0(
                 StripEnds(CollapseWhitespace(ReplaceEach(nameWithoutExt(f), InvalidChars, "_")),
                           Whitespace),
                 FileMaxLen)
    IN  IF cut = "" THEN "unnamed_file" ELSE cut

sanitizedName(f) ==
    LET cut == Substring0(
                 StripEnds(CollapseWhitespace(ReplaceEach(nameWithoutExt(f), InvalidChars, "_")),
                           Whitespace \cup {".", "_"}),
                 FileMaxLen)
    IN  IF cut = "" THEN "unnamed_file" ELSE cut

sanitizeFilename(f, u) == sanitizedName(f) \o extOf(f, u)

-----------------------------------------------------------------------------
(* content.js: the link scanner *)

VALID_EXTENSIONS ==
    <<"pptx", "ppt", "docx", "doc", "xlsx", "xls",
      "pdf", "txt", "zip", "rar", "7z",
      "jpg", "jpeg", "png", "gif", "bmp",
      "mp4", "mp3", "wav", "avi", "mov">>

\* s.split(/[\n\r]/)[0]
FirstLine(s) == RunOutside(s, 1, {"\n", "\r"})

\* s.replace(/<pat>.*$/i, ""): cut s at the leftmost occurrence of pat,
\* whatever its case
CutAtIgnoreCase(s, pat) ==
    LET k == IF Len(s) < Len(pat) THEN 0 ELSE IndexOf(ToLowerCase(s), ToLowerCase(pat))
    IN  IF k = 0 THEN s ELSE SubSeq(s, 1, k - 1)

\* the extensions of /^(.+?\.(pptx?|docx?|xlsx?|pdf|txt|zip|rar|7z|jpe?g|png|gif|bmp|mp[34]|wav|avi|mov))/i
KnownExtensions ==
    {"pptx", "ppt", "docx", "doc", "xlsx", "xls", "pdf", "txt", "zip", "rar", "7z",
     "jpeg", "jpg", "png", "gif", "bmp", "mp3", "mp4", "wav", "avi", "mov"}

\* the lengths of the known extensions that stand in s right after position d
ExtensionsAt(s, d) ==
    { Len(e) : e \in { x \in KnownExtensions :
                          /\ d + Len(x) <= Len(s)
                          /\ ToLowerCase(SubSeq(s, d + 1, d + Len(x))) = x } }

\* that regular expression's group 1: s up to the first known extension that
\* follows a dot and at least one character, the optional letter taken when it
\* is there; s itself when there is no match
cutAfterKnownExtension(s) ==
    LET dots == { d \in 2..Len(s) : Ch(s, d) = "." /\ ExtensionsAt(s, d) # {} }
    IN  IF dots = {} THEN s
        ELSE SubSeq(s, 1, MinOf(dots) + MaxOf(ExtensionsAt(s, MinOf(dots))))

Unusable(f) == f = "" \/ Len(f) < 2

extractFilename(link) ==
    LET own == Trim(FirstLine(link.textContent))
        stripped ==
            Trim(CutAtIgnoreCase(CutAtIgnoreCase(CutAtIgnoreCase(
                 CutAtIgnoreCase(CutAtIgnoreCase(CutAtIgnoreCase(own,
                     "Microsoft PowerPoint"), "Microsoft Word"), "Microsoft Excel"),
                     "Google Docs"), "Google Sheets"), "Google Slides"))
        m1 == cutAfterKnownExtension(stripped)
        m2 == IF Unusable(m1) /\ link.card.found /\ link.card.titled
              THEN FirstLine(Trim(link.card.title))
              ELSE m1
        m3 == IF Unusable(m2)
              THEN Trim(FirstLine(IF link.title # "" THEN link.title ELSE link.ariaLabel))
              ELSE m2
        clean == Trim(CollapseWhitespace(m3))
    IN  IF Unusable(clean) THEN "unknown_file" ELSE clean

\* the same with includes, as popup.js tests
hasValidExtensionAnywhere(f) ==
    LET lower == ToLowerCase(f)
    IN  \E k \in 1..Len(VALID_EXTENSIONS) : Includes(lower, "." \o VALID_EXTENSIONS[k])

\* VALID_EXTENSIONS.some(ext => lower.endsWith('.' + ext))
hasValidExtension(f) ==
    LET lower == ToLowerCase(f)
    IN  \E k \in 1..Len(VALID_EXTENSIONS) : EndsWith(lower, "." \o VALID_EXTENSIONS[k])

isNavigationLink(u) ==
    IF Includes(u, "/c/") /\ Includes(u, "/details") THEN FALSE
    ELSE IF /\ Includes(u, "/c/")
            /\ ~Includes(u, "drive.google.com")
            /\ ~Includes(u, "docs.google.com")
         THEN TRUE
    ELSE FALSE

\* document.querySelectorAll('a[href*="drive.google.com"], a[href*="docs.google.com"]')
querySelectorAll(anchors) ==
    SelectSeq(anchors, LAMBDA a :
        Includes(a.href, "drive.google.com") \/ Includes(a.href, "docs.google.com"))

\* the forEach of scanForFiles from link i on, with what it has collected
RECURSIVE scanFrom(_, _, _, _)
scanFrom(links, i, files, seenUrls) ==
    IF i > Len(links) THEN files
    ELSE LET link == links[i]
             fname == extractFilename(link)
         IN  IF link.href = "" \/ link.href \in seenUrls
               THEN scanFrom(links, i + 1, files, seenUrls)
             ELSE IF isNavigationLink(link.href)
               THEN scanFrom(links, i + 1, files, seenUrls)
             ELSE IF ~hasValidExtension(fname)
               THEN scanFrom(links, i + 1, files, seenUrls)
             ELSE scanFrom(links, i + 1,
                           Append(files, [url |-> link.href, filename |-> fname]),
                           seenUrls \cup {link.href})

\* the same with the URL marked as seen before the extension is tested
RECURSIVE scanMarkingFirst(_, _, _, _)
scanMarkingFirst(links, i, files, seenUrls) ==
    IF i > Len(links) THEN files
    ELSE LET link == links[i]
             fname == extractFilename(link)
         IN  IF link.href = "" \/ link.href \in seenUrls
               THEN scanMarkingFirst(links, i + 1, files, seenUrls)
             ELSE IF isNavigationLink(link.href)
               THEN scanMarkingFirst(links, i + 1, files, seenUrls)
             ELSE IF ~hasValidExtension(fname)
               THEN scanMarkingFirst(links, i + 1, files, seenUrls \cup {link.href})
             ELSE scanMarkingFirst(links, i + 1,
                                   Append(files, [url |-> link.href, filename |-> fname]),
                                   seenUrls \cup {link.href})

scanForFilesMarkingFirst(doc) == scanMarkingFirst(querySelectorAll(doc.anchors), 1, <<>>, {})

scanForFiles(doc) == scanFrom(querySelectorAll(doc.anchors), 1, <<>>, {})

\* the text of the first element, in the order of titleSelectors, that has text
RECURSIVE firstTitle(_, _)
firstTitle(els, i) ==
    IF i > Len(els) THEN ""
    ELSE IF els[i].found /\ Trim(els[i].text) # "" THEN Trim(els[i].text)
    ELSE firstTitle(els, i + 1)

\* pageTitle.replace(/ - Google Classroom$/i, "")
stripSiteName(t) ==
    IF EndsWith(ToLowerCase(t), " - google classroom")
    THEN SubSeq(t, 1, Len(t) - Len(" - google classroom"))
    ELSE t

getAssignmentName(doc) ==
    IF firstTitle(doc.titleElements, 1) # "" THEN firstTitle(doc.titleElements, 1)
    ELSE LET t == Trim(stripSiteName(doc.title))
             short == IF Includes(t, " - ")
                      THEN Trim(SubSeq(t, 1, IndexOf(t, " - ") - 1))
                      ELSE t
         IN  IF short = "" THEN "Classroom_Download" ELSE short

-----------------------------------------------------------------------------
(* background.js: the download orchestrator *)

\* String(n).padStart(2, '0')
padStart2(n) == IF n < 10 THEN "0" \o ToString(n) ELSE ToString(n)

\* d is what the Date holds: getFullYear, getMonth (from 0), getDate, ...
generateTimestamp(d) ==
    ToString(d.fullYear) \o "-" \o padStart2(d.month + 1) \o "-" \o padStart2(d.date)
        \o "_" \o padStart2(d.hours) \o "-" \o padStart2(d.minutes)
        \o "-" \o padStart2(d.seconds)

\* handleDownloadRequest, lines 53 to 55
sessionFolderOf(label, d) ==
    sanitizeFolderName(IF label = "" THEN "Classroom_Downloads" ELSE label)
        \o "_" \o generateTimestamp(d)

\* a property that is there: neither missing nor undefined
has(object, field) == field \in DOMAIN object

\* null where a record is expected
Null == [null |-> TRUE]

\* message.assignmentName, "" when there is none
labelOf(msg) == IF has(msg, "assignmentName") THEN msg.assignmentName ELSE ""

\* what the executor of downloadFile throws before it reaches
\* chrome.downloads.download, "" when it throws nothing: attachment.filename of
\* null, nameWithoutExt.replace in sanitizeFilename of no filename, url.match
\* in convertToDownloadUrl of no url
executorError(attachment) ==
    IF attachment = Null THEN "Cannot read properties of null (reading 'filename')"
    ELSE IF ~has(attachment, "filename")
    THEN "Cannot read properties of undefined (reading 'replace')"
    ELSE IF ~has(attachment, "url")
    THEN "Cannot read properties of undefined (reading 'match')"
    ELSE ""

\* downloadFile: the options it hands to chrome.downloads.download
downloadOptions(attachment, folder) ==
    [url |-> convertToDownloadUrl(attachment.url),
     filename |-> "Classroom/" \o folder \o "/"
                      \o sanitizeFilename(attachment.filename, attachment.url),
     saveAs |-> FALSE]

\* the records whose download the for loop starts on entering iteration i, all at once
startsAllAtOnce(attachments, i) == IF i = 1 THEN 1..Len(attachments) ELSE {}

\* the records whose download the for loop starts on entering iteration i:
\* record i alone, the loop awaits it before it goes on
startsAt(attachments, i) == {i}

\* those of them whose downloadFile reaches chrome.downloads.download
started(attachments, i) ==
    { k \in startsAt(attachments, i) : executorError(attachments[k]) = "" }

\* the chrome.downloads.download calls made on entering iteration i
callsAt(attachments, folder, i) ==
    { [index |-> k, options |-> downloadOptions(attachments[k], folder)] :
          k \in started(attachments, i) }

\* the promise of downloadFile already rejected on entering iteration i,
\* because its executor threw
thrownAt(attachments, i) ==
    IF executorError(attachments[i]) = "" THEN <<>>
    ELSE <<[index |-> i,
            outcome |-> [kind |-> "thrown", message |-> executorError(attachments[i])]]>>

\* the same calls in the order they are made
RECURSIVE callLog(_, _, _)
callLog(attachments, folder, ks) ==
    IF ks = {} THEN <<>>
    ELSE <<[index |-> MinOf(ks), options |-> downloadOptions(attachments[MinOf(ks)], folder)]>>
             \o callLog(attachments, folder, ks \ {MinOf(ks)})

\* the message downloadFile rejects with
rejectionOf(outcome) ==
    IF outcome.kind \in {"lastError", "thrown"} THEN outcome.message
    ELSE "Download failed - no download ID returned"

\* { url: attachment.url, success: false, error: error.message }; a url that
\* is undefined is not in what sendResponse sends
failure(attachment, msg) ==
    IF has(attachment, "url")
    THEN [url |-> attachment.url, success |-> FALSE, error |-> msg]
    ELSE [success |-> FALSE, error |-> msg]

\* a catch block that lets every exception thrown by the executor through
catchErrorOfThrown(attachment, outcome) ==
    IF outcome.kind = "thrown" THEN outcome.message ELSE ""

\* what the catch block of the loop throws, "" when it throws nothing:
\* it reads attachment.url, of null too
catchError(attachment, outcome) ==
    IF outcome.kind # "id" /\ attachment = Null
    THEN "Cannot read properties of null (reading 'url')"
    ELSE ""

\* a catch block that pushes nothing for the record that failed
resultSkipping(attachment, outcome) ==
    IF outcome.kind = "id"
    THEN <<[url |-> attachment.url, success |-> TRUE, downloadId |-> outcome.id]>>
    ELSE <<>>

\* the result pushed for a record: downloadFile resolved with the id, or
\* rejected with lastError's message or for want of an id
resultOf(attachment, outcome) ==
    IF outcome.kind = "id"
    THEN <<[url |-> attachment.url, success |-> TRUE, downloadId |-> outcome.id]>>
    ELSE <<failure(attachment, rejectionOf(outcome))>>

BatchIdle ==
    /\ message = [action |-> "", attachments |-> <<>>, assignmentName |-> ""]
    /\ pc = "no message" /\ sessionFolder = "" /\ results = <<>> /\ idx = 0
    /\ outstanding = {} /\ downloads = <<>> /\ settled = <<>> /\ callbacks = <<>>
    /\ response = <<>> /\ error = ""
    /\ nextId = 1
    /\ now = [fullYear |-> 1970, month |-> 0, date |-> 1,
              hours |-> 0, minutes |-> 0, seconds |-> 0]

-----------------------------------------------------------------------------
(* popup.js: the scan round trip and the selection *)

\* popup.js has its own list, with the dots, and tests with includes
POPUP_VALID_EXTENSIONS ==
    <<".pptx", ".ppt", ".docx", ".doc", ".xlsx", ".xls",
      ".pdf", ".txt", ".zip", ".rar", ".7z",
      ".jpg", ".jpeg", ".png", ".gif", ".bmp",
      ".mp4", ".mp3", ".wav", ".avi", ".mov">>

popupFilter(files) ==
    SelectSeq(files, LAMBDA file :
        LET lower == ToLowerCase(file.filename)
        IN  \E k \in 1..Len(POPUP_VALID_EXTENSIONS) :
                Includes(lower, POPUP_VALID_EXTENSIONS[k]))

\* updateDownloadButton: btn.disabled = checked === 0
updateDownloadButton(boxes) == boxes = {}

\* the checked files of downloadSelected, in the order of the list
RECURSIVE filesToDownload(_, _, _)
filesToDownload(files, boxes, i) ==
    IF i > Len(files) THEN <<>>
    ELSE (IF i \in boxes THEN <<files[i]>> ELSE <<>>)
             \o filesToDownload(files, boxes, i + 1)

MaxRequests == 1

\* the popup is opened MaxOpens times at most
MaxOpens == 2

\* the saves under way at most: path messages not yet answered and reports
\* not yet cleared
MaxSaves == 2

ScanIdle ==
    /\ page = [tabUrl |-> "", anchors |-> <<>>, titleElements |-> <<>>, title |-> ""]
    /\ view = "closed" /\ scanPending = FALSE /\ scanResponse = <<>>
    /\ detectedFiles = <<>> /\ assignmentName = "" /\ checked = {}
    /\ btnDisabled = TRUE /\ outbox = <<>> /\ awaitingResponse = 0

\* loadDownloadPath up to its await: the message it sends
loadDownloadPath == [action |-> "GET_DOWNLOAD_PATH"]

\* DOMContentLoaded: off Classroom the popup says so, on it it asks for a scan
PopupOpen ==
    /\ view = "closed"
    /\ IF ~Includes(page.tabUrl, "classroom.google.com")
       THEN /\ view' = "notClassroom"
            /\ UNCHANGED scanPending
       ELSE /\ view' = "loading"
            /\ scanPending' = TRUE
    /\ settingsRequests' = Append(settingsRequests, loadDownloadPath)
    /\ savedBeforeGet' = reportedSaved
    /\ opens' = opens + 1
    /\ UNCHANGED <<page, scanResponse, detectedFiles, assignmentName, checked,
                   btnDisabled, outbox, awaitingResponse,
                   pathInput, pathStatus, statusTimers, settingsReplies, reportedSaved,
                   getLog, pureVars, batchVars>>

\* content.js onMessage, SCAN_FILES
ContentScan ==
    /\ scanPending
    /\ scanPending' = FALSE
    /\ scanResponse' = Append(scanResponse,
                              [success |-> TRUE,
                               files |-> scanForFiles(page),
                               assignmentName |-> getAssignmentName(page)])
    /\ UNCHANGED <<page, view, detectedFiles, assignmentName, checked,
                   btnDisabled, outbox, awaitingResponse,
                   pureVars, batchVars, settingsVars>>

\* chrome.tabs.sendMessage rejects (no content script in the tab): showEmpty
ScanUnreachable ==
    /\ scanPending
    /\ scanPending' = FALSE
    /\ view' = "empty"
    /\ UNCHANGED <<page, scanResponse, detectedFiles, assignmentName, checked,
                   btnDisabled, outbox, awaitingResponse,
                   pureVars, batchVars, settingsVars>>

\* popup.js scanForFiles, after the await: filter, then showFileList (which
\* renders every file checked and updates the button) or showEmpty
PopupReceiveScan ==
    /\ scanResponse # <<>>
    /\ LET resp == Head(scanResponse)
           kept == popupFilter(resp.files)
       IN  /\ detectedFiles' = kept
           /\ assignmentName' = IF resp.assignmentName = ""
                                THEN "Classroom_Download"
                                ELSE resp.assignmentName
           /\ IF Len(kept) > 0
              THEN /\ view' = "fileList"
                   /\ checked' = 1..Len(kept)
                   /\ btnDisabled' = updateDownloadButton(1..Len(kept))
              ELSE /\ view' = "empty"
                   /\ UNCHANGED <<checked, btnDisabled>>
    /\ scanResponse' = Tail(scanResponse)
    /\ UNCHANGED <<page, scanPending, outbox, awaitingResponse,
                   pureVars, batchVars, settingsVars>>

\* a checkbox's change event
ToggleCheckbox ==
    /\ view = "fileList"
    /\ \E i \in 1..Len(detectedFiles) :
          LET boxes == IF i \in checked THEN checked \ {i} ELSE checked \cup {i}
          IN  /\ checked' = boxes
              /\ btnDisabled' = updateDownloadButton(boxes)
    /\ UNCHANGED <<page, view, scanPending, scanResponse, detectedFiles,
                   assignmentName, outbox, awaitingResponse,
                   pureVars, batchVars, settingsVars>>

selectAll ==
    /\ view = "fileList"
    /\ checked' = 1..Len(detectedFiles)
    /\ btnDisabled' = updateDownloadButton(1..Len(detectedFiles))
    /\ UNCHANGED <<page, view, scanPending, scanResponse, detectedFiles,
                   assignmentName, outbox, awaitingResponse,
                   pureVars, batchVars, settingsVars>>

deselectAll ==
    /\ view = "fileList"
    /\ checked' = {}
    /\ btnDisabled' = updateDownloadButton({})
    /\ UNCHANGED <<page, view, scanPending, scanResponse, detectedFiles,
                   assignmentName, outbox, awaitingResponse,
                   pureVars, batchVars, settingsVars>>

\* a click on the download button, up to the await of the response
downloadSelected ==
    /\ view = "fileList"
    /\ ~btnDisabled
    /\ Len(outbox) < MaxRequests
    /\ LET files == filesToDownload(detectedFiles, checked, 1)
       IN  IF Len(files) = 0
           THEN UNCHANGED <<btnDisabled, outbox, awaitingResponse>>
           ELSE /\ btnDisabled' = TRUE
                /\ outbox' = Append(outbox,
                                    [action |-> "DOWNLOAD_ATTACHMENTS",
                                     attachments |-> files,
                                     assignmentName |-> assignmentName])
                /\ awaitingResponse' = awaitingResponse + 1
    /\ UNCHANGED <<page, view, scanPending, scanResponse, detectedFiles,
                   assignmentName, checked, pureVars, batchVars, settingsVars>>

\* downloadSelected after the await, whatever the response: the button is
\* enabled again, then updateDownloadButton
downloadAnswered ==
    /\ awaitingResponse > 0
    /\ awaitingResponse' = awaitingResponse - 1
    /\ btnDisabled' = updateDownloadButton(checked)
    /\ UNCHANGED <<page, view, scanPending, scanResponse, detectedFiles,
                   assignmentName, checked, outbox, pureVars, batchVars, settingsVars>>

(* popup.js: the download path setting *)

SettingsIdle ==
    /\ pathInput = "" /\ pathStatus = "" /\ statusTimers = 0
    /\ settingsRequests = <<>> /\ settingsReplies = <<>>
    /\ reportedSaved = "" /\ savedBeforeGet = "" /\ getLog = <<>> /\ opens = 0

\* the listener of background.js on a message whose action is not
\* DOWNLOAD_ATTACHMENTS: nothing is done and nothing is answered
OnOtherMessage ==
    /\ settingsRequests # <<>>
    /\ Head(settingsRequests).action # "DOWNLOAD_ATTACHMENTS"
    /\ settingsRequests' = Tail(settingsRequests)
    /\ settingsReplies' = Append(settingsReplies,
                                 [to |-> Head(settingsRequests), body |-> <<>>])
    /\ UNCHANGED <<pathInput, pathStatus, statusTimers, reportedSaved, savedBeforeGet,
                   getLog, opens, pureVars, scanVars, batchVars>>

\* what the await of chrome.runtime.sendMessage gives when the listener has
\* answered nothing: undefined, or a rejection
Unanswered == {"undefined", "rejected"}

\* response.path || "Classroom"
shownPath(resp) == IF resp.path = "" THEN "Classroom" ELSE resp.path

\* loadDownloadPath after the await: with a response the input shows its path,
\* without one reading response.path throws and the catch block logs
loadDownloadPathAnswered ==
    /\ settingsReplies # <<>>
    /\ Head(settingsReplies).to.action = "GET_DOWNLOAD_PATH"
    /\ settingsReplies' = Tail(settingsReplies)
    /\ LET body == Head(settingsReplies).body
       IN  IF body # <<>>
           THEN /\ pathInput' = shownPath(body[1])
                /\ getLog' = Append(getLog, [saved |-> savedBeforeGet,
                                             returned |-> <<shownPath(body[1])>>])
           ELSE \E outcome \in Unanswered :
                    /\ UNCHANGED pathInput
                    /\ getLog' = Append(getLog, [saved |-> savedBeforeGet,
                                                 returned |-> <<>>])
    /\ UNCHANGED <<pathStatus, statusTimers, settingsRequests, reportedSaved,
                   savedBeforeGet, opens, pureVars, scanVars, batchVars>>

\* what the user may have typed into the path input
TypedPaths == {"", "  ", " MyDownloads ", "School"}

\* a click on the save button, the input holding typed: saveDownloadPath up to
\* its return or its await. The listener is added on a Classroom tab only.
saveDownloadPath ==
    /\ view \in {"loading", "fileList", "empty"}
    /\ Len(settingsRequests) + Len(settingsReplies) + statusTimers < MaxSaves
    /\ \E typed \in TypedPaths :
          /\ pathInput' = typed
          /\ IF Trim(typed) = ""
             THEN /\ pathStatus' = "Path cannot be empty"
                  /\ UNCHANGED settingsRequests
             ELSE /\ settingsRequests' = Append(settingsRequests,
                                                [action |-> "SET_DOWNLOAD_PATH",
                                                 path |-> Trim(typed)])
                  /\ UNCHANGED pathStatus
    /\ UNCHANGED <<statusTimers, settingsReplies, reportedSaved, savedBeforeGet,
                   getLog, opens, pureVars, scanVars, batchVars>>

\* saveDownloadPath after the await: saved is reported whenever the await did
\* not throw, and a timer is set to clear the report; a rejection reports the
\* error. (The report starts with a check mark in the source.)
saveDownloadPathAnswered ==
    /\ settingsReplies # <<>>
    /\ Head(settingsReplies).to.action = "SET_DOWNLOAD_PATH"
    /\ settingsReplies' = Tail(settingsReplies)
    /\ \E outcome \in (IF Head(settingsReplies).body # <<>> THEN {"response"} ELSE Unanswered) :
          IF outcome = "rejected"
          THEN /\ pathStatus' = "Error saving path"
               /\ UNCHANGED <<statusTimers, reportedSaved>>
          ELSE /\ pathStatus' = "Path saved successfully"
               /\ statusTimers' = statusTimers + 1
               /\ reportedSaved' = Head(settingsReplies).to.path
    /\ UNCHANGED <<pathInput, settingsRequests, savedBeforeGet, getLog, opens,
                   pureVars, scanVars, batchVars>>

\* the setTimeout callback of saveDownloadPath
clearPathStatus ==
    /\ statusTimers > 0
    /\ statusTimers' = statusTimers - 1
    /\ pathStatus' = ""
    /\ UNCHANGED <<pathInput, settingsRequests, settingsReplies, reportedSaved,
                   savedBeforeGet, getLog, opens, pureVars, scanVars, batchVars>>

\* the popup is closed, with nothing it sent left unanswered and no timer
\* pending: its document and its script's variables are gone
PopupClose ==
    /\ view # "closed"
    /\ opens < MaxOpens
    /\ ~scanPending /\ scanResponse = <<>> /\ awaitingResponse = 0
    /\ settingsRequests = <<>> /\ settingsReplies = <<>> /\ statusTimers = 0
    /\ view' = "closed"
    /\ detectedFiles' = <<>> /\ assignmentName' = "" /\ checked' = {}
    /\ btnDisabled' = TRUE
    /\ pathInput' = "" /\ pathStatus' = ""
    /\ UNCHANGED <<page, scanPending, scanResponse, outbox, awaitingResponse,
                   statusTimers, settingsRequests, settingsReplies, reportedSaved,
                   savedBeforeGet, getLog, opens, pureVars, batchVars>>

PureIdle ==
    /\ url = "" /\ filename = "" /\ name = ""
    /\ downloadUrl = "" /\ sanitizedFilename = "" /\ resanitized = ""
    /\ folderName = "" /\ refolded = "" /\ calls = {}

(* The pages *)

NoCard == [found |-> FALSE, titled |-> FALSE, title |-> ""]

Anchor(href, text, card, title, aria) ==
    [href |-> href, textContent |-> text, card |-> card,
     title |-> title, ariaLabel |-> aria]

Anchors ==
    { Anchor("https://drive.google.com/file/d/F1/view", "Lecture 1.pdf\nPDF", NoCard, "", ""),
      Anchor("https://drive.google.com/file/d/F1/view", "", NoCard, "setup.pdf.exe", ""),
      Anchor("https://drive.google.com/file/d/F1/view", "Copy of Lecture 1.pdf.zip extra",
             NoCard, "", ""),
      Anchor("https://docs.google.com/presentation/d/S1/edit",
             "  Week 2   Slides.PPTXMicrosoft PowerPoint", NoCard, "", ""),
      Anchor("https://docs.google.com/document/d/D1/edit", "Essay draftGoogle Docs",
             NoCard, "", ""),
      Anchor("https://drive.google.com/file/d/F2/view", "x",
             [found |-> TRUE, titled |-> TRUE, title |-> " notes.txt\nText "], "", ""),
      Anchor("https://drive.google.com/file/d/F3/view", "", NoCard, "", ""),
      Anchor("https://classroom.google.com/c/NjE/a/xyz", "Syllabus.pdf", NoCard, "", "") }

MaxAnchors == 2

NoElement == [found |-> FALSE, text |-> ""]

\* the elements the five title selectors find, and document.title
Titles ==
    { [titleElements |-> <<NoElement, NoElement, NoElement, NoElement,
                           [found |-> TRUE, text |-> " Homework #1: A/B "]>>,
       title |-> "Classwork"],
      [titleElements |-> <<[found |-> TRUE, text |-> "  "], NoElement, NoElement,
                           NoElement, NoElement>>,
       title |-> "Week 3 - Math - Google Classroom"] }

Pages ==
    { [tabUrl |-> "https://classroom.google.com/c/NjE/a/xyz/details",
       anchors |-> as, titleElements |-> t.titleElements, title |-> t.title] :
          as \in SeqsUpTo(Anchors, MaxAnchors), t \in Titles }
      \cup { [tabUrl |-> "https://example.com/", anchors |-> <<>>,
              titleElements |-> <<>>, title |-> "Example"] }

InitScan ==
    /\ PureIdle
    /\ page \in Pages
    /\ view = "closed" /\ scanPending = FALSE /\ scanResponse = <<>>
    /\ detectedFiles = <<>> /\ assignmentName = "" /\ checked = {}
    /\ btnDisabled = TRUE /\ outbox = <<>> /\ awaitingResponse = 0
    /\ BatchIdle
    /\ SettingsIdle

\* The steps of the path messages change none of the variables of the scan
\* and of the selection; they are taken in NextSettings.
NextScan ==
    \/ PopupOpen
    \/ ContentScan
    \/ ScanUnreachable
    \/ PopupReceiveScan
    \/ ToggleCheckbox
    \/ selectAll
    \/ deselectAll
    \/ downloadSelected
    \/ downloadAnswered

SpecScan == InitScan /\ [][NextScan]_vars

(* The popup opened, used for its path setting, closed and opened again *)

SettingsPages ==
    { [tabUrl |-> "https://classroom.google.com/c/NjE/a/xyz/details",
       anchors |-> <<>>, titleElements |-> <<>>, title |-> "Week 3 - Google Classroom"],
      [tabUrl |-> "https://example.com/", anchors |-> <<>>,
       titleElements |-> <<>>, title |-> "Example"] }

InitSettings ==
    /\ PureIdle
    /\ page \in SettingsPages
    /\ view = "closed" /\ scanPending = FALSE /\ scanResponse = <<>>
    /\ detectedFiles = <<>> /\ assignmentName = "" /\ checked = {}
    /\ btnDisabled = TRUE /\ outbox = <<>> /\ awaitingResponse = 0
    /\ BatchIdle
    /\ SettingsIdle

NextSettings ==
    \/ PopupOpen
    \/ ContentScan
    \/ ScanUnreachable
    \/ PopupReceiveScan
    \/ OnOtherMessage
    \/ loadDownloadPathAnswered
    \/ saveDownloadPath
    \/ saveDownloadPathAnswered
    \/ clearPathStatus
    \/ PopupClose

SpecSettings == InitSettings /\ [][NextSettings]_vars

-----------------------------------------------------------------------------
(* background.js: the batch, message by message and callback by callback *)

\* the listener, and handleDownloadRequest up to its first await (or, with no
\* attachments, to its return)
OnDownloadMessage ==
    /\ pc = "delivered"
    /\ message.action = "DOWNLOAD_ATTACHMENTS"
    /\ LET folder == sessionFolderOf(labelOf(message), now)
       IN  /\ sessionFolder' = folder
           /\ results' = <<>>
           /\ IF ~has(message, "attachments")
              THEN /\ pc' = "rejected"
                   /\ error' = "Cannot read properties of undefined (reading 'length')"
                   /\ UNCHANGED <<idx, outstanding, downloads, settled>>
              ELSE IF Len(message.attachments) = 0
              THEN /\ pc' = "returned"
                   /\ UNCHANGED <<idx, outstanding, downloads, settled, error>>
              ELSE /\ pc' = "awaiting"
                   /\ idx' = 1
                   /\ outstanding' = outstanding \cup callsAt(message.attachments, folder, 1)
                   /\ downloads' = downloads
                                      \o callLog(message.attachments, folder,
                                                 started(message.attachments, 1))
                   /\ settled' = thrownAt(message.attachments, 1)
                   /\ UNCHANGED error
    /\ UNCHANGED <<message, callbacks, response, nextId, now, pureVars, scanVars, settingsVars>>

\* what the callback of chrome.downloads.download is given
managerOutcome(kind, id) ==
    CASE kind = "id" -> [kind |-> "id", id |-> id]
      [] kind = "lastError" -> [kind |-> "lastError", message |-> "Download interrupted"]
      [] kind = "undefined" -> [kind |-> "undefined"]

\* the download manager calls back: with an id, with lastError set, or with
\* neither
DownloadCallback ==
    /\ pc = "awaiting"
    /\ settled = <<>>
    /\ \E call \in outstanding :
          /\ outstanding' = outstanding \ {call}
          /\ \E kind \in {"id", "lastError", "undefined"} :
                /\ settled' = <<[index |-> call.index, outcome |-> managerOutcome(kind, nextId)]>>
                /\ callbacks' = Append(callbacks, [index |-> call.index,
                                                   outcome |-> managerOutcome(kind, nextId)])
                /\ nextId' = IF kind = "id" THEN nextId + 1 ELSE nextId
    /\ UNCHANGED <<message, pc, sessionFolder, results, idx, downloads, response, error,
                   now, pureVars, scanVars, settingsVars>>

\* handleDownloadRequest after the await: push the result, then the next
\* iteration up to its await, or the return; when the catch block itself
\* throws, handleDownloadRequest rejects
ResumeLoop ==
    /\ pc = "awaiting"
    /\ settled # <<>>
    /\ settled[1].index = idx
    /\ LET atts == message.attachments
       IN  IF catchError(atts[idx], settled[1].outcome) # ""
           THEN /\ pc' = "rejected"
                /\ error' = catchError(atts[idx], settled[1].outcome)
                /\ settled' = <<>>
                /\ UNCHANGED <<results, idx, outstanding, downloads>>
           ELSE /\ results' = results \o resultOf(atts[idx], settled[1].outcome)
                /\ UNCHANGED error
                /\ IF idx = Len(atts)
                   THEN /\ pc' = "returned"
                        /\ settled' = <<>>
                        /\ UNCHANGED <<idx, outstanding, downloads>>
                   ELSE /\ idx' = idx + 1
                        /\ outstanding' = outstanding \cup callsAt(atts, sessionFolder, idx + 1)
                        /\ downloads' = downloads
                                           \o callLog(atts, sessionFolder, started(atts, idx + 1))
                        /\ settled' = thrownAt(atts, idx + 1)
                        /\ UNCHANGED pc
    /\ UNCHANGED <<message, sessionFolder, callbacks, response, nextId, now,
                   pureVars, scanVars, settingsVars>>

\* .then((results) => sendResponse({ success: true, results }))
\* .catch((error) => sendResponse({ success: false, error: error.message }))
SendResponse ==
    /\ pc \in {"returned", "rejected"}
    /\ pc' = "responded"
    /\ response' = IF pc = "returned"
                   THEN <<[success |-> TRUE, results |-> results]>>
                   ELSE <<[success |-> FALSE, error |-> error]>>
    /\ UNCHANGED <<message, sessionFolder, results, idx, outstanding, downloads,
                   settled, callbacks, error, nextId, now, pureVars, scanVars, settingsVars>>

(* The batches *)

Records ==
    { [url |-> "https://drive.google.com/file/d/F1/view", filename |-> "Lecture 1.pdf"],
      [url |-> "https://docs.google.com/presentation/d/S1/edit",
       filename |-> "Week 2 Slides.PPTX"],
      [url |-> "https://example.com/files/notes.txt", filename |-> "notes.txt"] }

MaxBatch == 3

Labels == {"Homework #1: A/B", ""}

Clocks ==
    { [fullYear |-> 2026, month |-> 0, date |-> 5, hours |-> 9, minutes |-> 3, seconds |-> 7],
      [fullYear |-> 2025, month |-> 11, date |-> 31,
       hours |-> 23, minutes |-> 59, seconds |-> 59] }

Messages ==
    [action : {"DOWNLOAD_ATTACHMENTS"},
     attachments : SeqsUpTo(Records, MaxBatch),
     assignmentName : Labels]

Init ==
    /\ PureIdle
    /\ ScanIdle
    /\ message \in Messages
    /\ now \in Clocks
    /\ pc = "delivered" /\ sessionFolder = "" /\ results = <<>> /\ idx = 0
    /\ outstanding = {} /\ downloads = <<>> /\ settled = <<>> /\ callbacks = <<>>
    /\ response = <<>> /\ error = ""
    /\ nextId = 1
    /\ SettingsIdle

Next ==
    \/ OnDownloadMessage
    \/ DownloadCallback
    \/ ResumeLoop
    \/ SendResponse

Spec == Init /\ [][Next]_vars

(* Any message: records that lack a property or are null, no attachments at *)
(* all, labels that are blank or missing, two records of one name.          *)

WholeRecord ==
    [url |-> "https://drive.google.com/file/d/F1/view", filename |-> "Lecture 1.pdf"]
SameNameRecord ==
    [url |-> "https://drive.google.com/file/d/F2/view", filename |-> "Lecture 1.pdf"]
NoFilenameRecord == [url |-> "https://drive.google.com/file/d/F2/view"]
NoUrlRecord == [filename |-> "notes.txt"]

AnyRecords == {WholeRecord, SameNameRecord, NoFilenameRecord, NoUrlRecord, Null}

MaxAnyBatch == 2

AnyLabels == {"Homework #1: A/B", "", " /: "}

AnyMessages ==
    [action : {"DOWNLOAD_ATTACHMENTS"},
     attachments : SeqsUpTo(AnyRecords, MaxAnyBatch),
     assignmentName : AnyLabels]
    \cup [action : {"DOWNLOAD_ATTACHMENTS"}, attachments : SeqsUpTo(AnyRecords, MaxAnyBatch)]
    \cup [action : {"DOWNLOAD_ATTACHMENTS"}, assignmentName : AnyLabels]

InitAnyMessage ==
    /\ PureIdle
    /\ ScanIdle
    /\ message \in AnyMessages
    /\ now \in Clocks
    /\ pc = "delivered" /\ sessionFolder = "" /\ results = <<>> /\ idx = 0
    /\ outstanding = {} /\ downloads = <<>> /\ settled = <<>> /\ callbacks = <<>>
    /\ response = <<>> /\ error = ""
    /\ nextId = 1
    /\ SettingsIdle

SpecAnyMessage == InitAnyMessage /\ [][Next]_vars

-----------------------------------------------------------------------------
(* The three pure functions of background.js, each applied to inputs drawn  *)
(* from a bounded set.                                                      *)

CallConvert ==
    /\ "convertToDownloadUrl" \notin calls
    /\ downloadUrl' = convertToDownloadUrl(url)
    /\ calls' = calls \cup {"convertToDownloadUrl"}
    /\ UNCHANGED <<url, filename, name, sanitizedFilename, resanitized, folderName, refolded,
                   scanVars, batchVars, settingsVars>>

CallSanitizeFilename ==
    /\ "sanitizeFilename" \notin calls
    /\ sanitizedFilename' = sanitizeFilename(filename, url)
    /\ calls' = calls \cup {"sanitizeFilename"}
    /\ UNCHANGED <<url, filename, name, downloadUrl, resanitized, folderName, refolded,
                   scanVars, batchVars, settingsVars>>

CallSanitizeFilenameAgain ==
    /\ "sanitizeFilename" \in calls
    /\ "sanitizeFilename twice" \notin calls
    /\ resanitized' = sanitizeFilename(sanitizedFilename, url)
    /\ calls' = calls \cup {"sanitizeFilename twice"}
    /\ UNCHANGED <<url, filename, name, downloadUrl, sanitizedFilename, folderName, refolded,
                   scanVars, batchVars, settingsVars>>

CallSanitizeFolderName ==
    /\ "sanitizeFolderName" \notin calls
    /\ folderName' = sanitizeFolderName(name)
    /\ calls' = calls \cup {"sanitizeFolderName"}
    /\ UNCHANGED <<url, filename, name, downloadUrl, sanitizedFilename, resanitized, refolded,
                   scanVars, batchVars, settingsVars>>

CallSanitizeFolderNameAgain ==
    /\ "sanitizeFolderName" \in calls
    /\ "sanitizeFolderName twice" \notin calls
    /\ refolded' = sanitizeFolderName(folderName)
    /\ calls' = calls \cup {"sanitizeFolderName twice"}
    /\ UNCHANGED <<url, filename, name, downloadUrl, sanitizedFilename, resanitized, folderName,
                   scanVars, batchVars, settingsVars>>

(* URL shapes: a scheme, a hosting path, an identifier, and what follows it *)

RecognizedKinds == {"file", "open", "document", "spreadsheets", "presentation"}
OtherKinds == {"account document", "folder", "forms", "direct"}

KindLit(k) ==
    CASE k = "file" -> DriveFileLit
      [] k = "open" -> DriveOpenLit
      [] k = "document" -> DocsLit
      [] k = "spreadsheets" -> SheetsLit
      [] k = "presentation" -> SlidesLit
      [] k = "account document" -> "docs.google.com/document/u/0/d/"
      [] k = "folder" -> "drive.google.com/drive/folders/"
      [] k = "forms" -> "docs.google.com/forms/d/"
      [] k = "direct" -> "example.com/files/"

\* what ends the identifier of a link of kind k
KindSep(k) == IF k = "open" THEN "&" ELSE "/"

UrlIds == {"ABC123", "XYZ", ""}
EmbeddedId == "Q1"

\* what follows the identifier: nothing, a plain tail, or a second hosting link
UrlRests == {[kind |-> "none"], [kind |-> "plain"]}
                \cup {[kind |-> k] : k \in RecognizedKinds}

RestText(r) ==
    CASE r.kind = "none" -> ""
      [] r.kind = "plain" -> "view"
      [] OTHER -> "ref=" \o KindLit(r.kind) \o EmbeddedId

UrlShapes ==
    [kind : RecognizedKinds \cup OtherKinds, id : UrlIds, rest : UrlRests]

ComposeUrl(sh) ==
    "https://" \o KindLit(sh.kind) \o sh.id
        \o (IF sh.rest.kind = "none" THEN "" ELSE KindSep(sh.kind) \o RestText(sh.rest))

Urls == { ComposeUrl(sh) : sh \in UrlShapes }

ResolveFilenames == {"Essay", "notes.v", "report.pdf"}

InitResolve ==
    /\ url \in Urls
    /\ filename \in ResolveFilenames
    /\ name = ""
    /\ downloadUrl = "" /\ sanitizedFilename = "" /\ resanitized = ""
    /\ folderName = "" /\ refolded = "" /\ calls = {}
    /\ ScanIdle
    /\ BatchIdle
    /\ SettingsIdle

NextResolve == CallConvert \/ CallSanitizeFilename

SpecResolve == InitResolve /\ [][NextResolve]_vars

(* File names: padding up to the truncation limit, then a name with the    *)
(* characters the sanitizer treats specially next to the extension.         *)

FilenamePads == {"", Repeat("a", FileMaxLen - 1)}
FilenameLeads == {"", " "}
FilenameCores == {"My File", "My:File", "a"}
FilenameTrails == {"", " ", "_", "?", "."}
FilenameExts == {"", ".pdf", ".x", ".tar.gz"}
FilenamePosts == {"", "?"}

Filenames ==
    { pad \o lead \o core \o trail \o ext \o post :
        pad \in FilenamePads, lead \in FilenameLeads, core \in FilenameCores,
        trail \in FilenameTrails, ext \in FilenameExts, post \in FilenamePosts }

FilenameUrls == {"", "https://docs.google.com/document/d/ABC123/edit"}

InitFilename ==
    /\ url \in FilenameUrls
    /\ filename \in Filenames
    /\ name = ""
    /\ downloadUrl = "" /\ sanitizedFilename = "" /\ resanitized = ""
    /\ folderName = "" /\ refolded = "" /\ calls = {}
    /\ ScanIdle
    /\ BatchIdle
    /\ SettingsIdle

NextFilename == CallSanitizeFilename \/ CallSanitizeFilenameAgain

SpecFilename == InitFilename /\ [][NextFilename]_vars

(* Folder names *)

FolderPads == {"", Repeat("a", FolderMaxLen - 2), Repeat("a", FolderMaxLen - 1)}
FolderLeads == {"", " ", "?"}
FolderCores == {"", "b", "Homework #1: A/B", "x \t y"}
FolderTrails == {"", " ", "/", " c"}

FolderNames ==
    { pad \o lead \o core \o trail :
        pad \in FolderPads, lead \in FolderLeads, core \in FolderCores,
        trail \in FolderTrails }

InitFolder ==
    /\ name \in FolderNames
    /\ url = "" /\ filename = ""
    /\ downloadUrl = "" /\ sanitizedFilename = "" /\ resanitized = ""
    /\ folderName = "" /\ refolded = "" /\ calls = {}
    /\ ScanIdle
    /\ BatchIdle
    /\ SettingsIdle

NextFolder == CallSanitizeFolderName \/ CallSanitizeFolderNameAgain

SpecFolder == InitFolder /\ [][NextFolder]_vars

-----------------------------------------------------------------------------
(* Claims about convertToDownloadUrl *)

RulePriority(k) ==
    CASE k = "file" -> 1
      [] k = "open" -> 2
      [] k = "document" -> 3
      [] k = "spreadsheets" -> 4
      [] k = "presentation" -> 5

\* the URL the claim expects for a link of kind k carrying identifier id
ExpectedExport(k, id) ==
    CASE k \in {"file", "open"} -> "https://drive.google.com/uc?export=download&id=" \o id
      [] k = "document" -> "https://docs.google.com/document/d/" \o id \o "/export?format=docx"
      [] k = "spreadsheets" -> "https://docs.google.com/spreadsheets/d/" \o id \o "/export?format=xlsx"
      [] k = "presentation" -> "https://docs.google.com/presentation/d/" \o id \o "/export/pptx"

\* the recognized links a shape holds, leftmost first: <<kind, identifier>>
ShapeLinks(sh) ==
    (IF sh.kind \in RecognizedKinds /\ sh.id # "" THEN <<(<<sh.kind, sh.id>>)>> ELSE <<>>)
        \o (IF sh.rest.kind \in RecognizedKinds THEN <<(<<sh.rest.kind, EmbeddedId>>)>> ELSE <<>>)

\* the link of the shape the first matching rule picks: the one of the earliest
\* rule, and the leftmost of two links of one rule
FirstRuleLink(sh) ==
    LET links == ShapeLinks(sh)
    IN  IF Len(links) = 2 /\ RulePriority(links[2][1]) < RulePriority(links[1][1])
        THEN links[2] ELSE links[1]

Converted == "convertToDownloadUrl" \in calls

\* C3: a URL holding recognized links is rewritten by the first rule, in the
\* order file-view, open, document, spreadsheet, slide-deck, that matches it, to
\* that rule's download or export URL for the identifier of the link it matched.
C3_FirstMatchingRule ==
    Converted =>
        \A sh \in UrlShapes :
            (url = ComposeUrl(sh) /\ ShapeLinks(sh) # <<>>) =>
                downloadUrl = ExpectedExport(FirstRuleLink(sh)[1], FirstRuleLink(sh)[2])

\* a document link that also holds a file-view link was rewritten by the
\* file-view rule
C3_Witness ==
    /\ Converted
    /\ url = ComposeUrl([kind |-> "document", id |-> "ABC123", rest |-> [kind |-> "file"]])
    /\ downloadUrl = "https://drive.google.com/uc?export=download&id=Q1"

\* C4: a URL that holds no recognized link comes back unchanged.
C4_PassThrough ==
    Converted =>
        \A sh \in UrlShapes :
            (url = ComposeUrl(sh) /\ ShapeLinks(sh) = <<>>) => downloadUrl = url

\* a file-view path with no identifier came back unchanged
C4_Witness ==
    /\ Converted
    /\ url = "https://drive.google.com/file/d//view"
    /\ downloadUrl = url

(* Claims about sanitizeFilename and sanitizeFolderName *)

Sanitized == "sanitizeFilename" \in calls

\* the rule convertToDownloadUrl rewrites u by
ruleOf(u) ==
    IF driveFileMatch(u) # NoMatch THEN "file"
    ELSE IF driveOpenMatch(u) # NoMatch THEN "open"
    ELSE IF docsMatch(u) # NoMatch THEN "document"
    ELSE IF sheetsMatch(u) # NoMatch THEN "spreadsheets"
    ELSE IF slidesMatch(u) # NoMatch THEN "presentation"
    ELSE "none"

MirroredExt(u) ==
    CASE ruleOf(u) = "document" -> ".docx"
      [] ruleOf(u) = "spreadsheets" -> ".xlsx"
      [] ruleOf(u) = "presentation" -> ".pptx"
      [] OTHER -> ""

\* C5: for a filename that lacks an extension, the extension appended is
\* .docx, .xlsx or .pptx exactly when convertToDownloadUrl rewrites the URL by
\* the document, spreadsheet or slide-deck rule, and empty otherwise.
C5_ExtensionMirrorsResolver ==
    (Sanitized /\ ~hasExtension(filename)) =>
        sanitizedFilename = sanitizedName(filename) \o MirroredExt(url)

\* C6: sanitizeFolderName applied twice gives what it gives applied once.
C6_FolderIdempotent ==
    "sanitizeFolderName twice" \in calls => refolded = folderName

\* C7: sanitizeFilename applied twice gives what it gives applied once.
C7_FilenameIdempotent ==
    "sanitizeFilename twice" \in calls => resanitized = sanitizedFilename

\* C8 as stated: "My File?.pdf" is sanitized to "My File_.pdf".
C8_TrailingUnderscoreKept ==
    (Sanitized /\ filename = "My File?.pdf") => sanitizedFilename = "My File_.pdf"

StrippedChars == Whitespace \cup {".", "_"}

\* the name part is left in place: nothing to strip at its ends once the
\* illegal characters are underscores, no whitespace to collapse, nothing to cut
NameKeptInPlace(nm) ==
    /\ nm # "" /\ Len(nm) <= FileMaxLen
    /\ Ch(nm, 1) \notin StrippedChars \cup InvalidChars
    /\ Ch(nm, Len(nm)) \notin StrippedChars \cup InvalidChars
    /\ \A i \in 1..Len(nm) : Ch(nm, i) \in Whitespace =>
           /\ Ch(nm, i) = " "
           /\ Ch(nm, i + 1) \notin Whitespace

\* C8 as amended: the extension is kept; the name part holds no illegal
\* character, does not start with whitespace, a dot or an underscore and,
\* unless it was longer than the truncation limit, does not end with one; a
\* name part left in place has exactly its illegal characters turned into
\* underscores; and "My File?.pdf" is sanitized to "My File.pdf".
C8_UnderscoreThenStrip ==
    (Sanitized /\ hasExtension(filename)) =>
        LET dot == MaxOf({ i \in 1..Len(filename) : Ch(filename, i) = "." })
            ext == SubSeq(filename, dot, Len(filename))
            nm == SubSeq(filename, 1, dot - 1)
            out == SubSeq(sanitizedFilename, 1, Len(sanitizedFilename) - Len(ext))
        IN  /\ EndsWith(sanitizedFilename, ext)
            /\ out # ""
            /\ CharsOf(out) \cap InvalidChars = {}
            /\ Ch(out, 1) \notin StrippedChars
            /\ Len(nm) <= FileMaxLen => Ch(out, Len(out)) \notin StrippedChars
            /\ NameKeptInPlace(nm) =>
                   /\ Len(out) = Len(nm)
                   /\ \A i \in 1..Len(nm) :
                          Ch(out, i) = IF Ch(nm, i) \in InvalidChars THEN "_" ELSE Ch(nm, i)
            /\ filename = "My File?.pdf" => sanitizedFilename = "My File.pdf"

\* "My File?.pdf" was sanitized
C8_Witness ==
    /\ Sanitized
    /\ filename = "My File?.pdf"
    /\ sanitizedFilename = "My File.pdf"

(* Claims about the scan *)

\* the anchors the scan looks at
Candidates == querySelectorAll(page.anchors)

\* what extractFilename gives for each anchor of the model
Extracted == [a \in Anchors |-> extractFilename(a)]

\* the anchors whose extracted filename passes the extension test
Passing == { a \in Anchors : hasValidExtension(Extracted[a]) }

RecordsWithUrl(files, u) == { i \in 1..Len(files) : files[i].url = u }

\* C9: a scan result holds at most one record per URL, and exactly one for
\* every URL that has a candidate anchor whose extracted filename passes the
\* allow-list.
C9_OneRecordPerUrl ==
    \A r \in 1..Len(scanResponse) :
        LET files == scanResponse[r].files
            cands == Candidates
            passingUrls == { cands[k].href : k \in { i \in 1..Len(cands) : cands[i] \in Passing } }
        IN  /\ \A i, j \in 1..Len(files) : files[i].url = files[j].url => i = j
            /\ \A u \in passingUrls : Cardinality(RecordsWithUrl(files, u)) = 1

\* two passing anchors with one URL and two filenames gave one record
C9_Witness ==
    /\ Len(scanResponse) = 1
    /\ Len(Candidates) = 2
    /\ Candidates[1].href = Candidates[2].href
    /\ Extracted[Candidates[1]] # Extracted[Candidates[2]]
    /\ Candidates[1] \in Passing
    /\ Candidates[2] \in Passing
    /\ Len(scanResponse[1].files) = 1

AllowList ==
    {"pptx", "ppt", "docx", "doc", "xlsx", "xls", "pdf", "txt", "zip", "rar", "7z",
     "jpg", "jpeg", "png", "gif", "bmp", "mp4", "mp3", "wav", "avi", "mov"}

\* f ends, whatever its case, in a dot and an extension of the allow-list
EndsInAllowed(f) ==
    LET lower == ToLowerCase(f)
    IN  \E e \in AllowList :
            /\ Len(f) > Len(e)
            /\ SubSeq(lower, Len(f) - Len(e), Len(f)) = "." \o e

AllAllowed(files) == \A i \in 1..Len(files) : EndsInAllowed(files[i].filename)

\* the anchors whose extracted filename ends in no allow-listed extension
Rejected == { a \in Anchors : ~EndsInAllowed(Extracted[a]) }

Holds(files, rec) == \E i \in 1..Len(files) : files[i] = rec

\* C10: every record of a scan result, of the popup's list and of a batch
\* request has a filename that ends in an allow-listed extension, and a
\* candidate whose extracted filename does not is in none of them.
C10_OnlyAllowedExtensions ==
    /\ \A r \in 1..Len(scanResponse) : AllAllowed(scanResponse[r].files)
    /\ AllAllowed(detectedFiles)
    /\ \A m \in 1..Len(outbox) : AllAllowed(outbox[m].attachments)
    /\ LET cands == Candidates
       IN  \A k \in 1..Len(cands) :
               cands[k] \in Rejected =>
                   LET rec == [url |-> cands[k].href, filename |-> Extracted[cands[k]]]
                   IN  /\ \A r \in 1..Len(scanResponse) : ~Holds(scanResponse[r].files, rec)
                       /\ ~Holds(detectedFiles, rec)
                       /\ \A m \in 1..Len(outbox) : ~Holds(outbox[m].attachments, rec)

\* a page with a .exe candidate and a .txt candidate: the batch request holds
\* the .txt record alone
C10_Witness ==
    /\ Len(Candidates) = 2
    /\ Extracted[Candidates[1]] = "setup.pdf.exe"
    /\ Extracted[Candidates[2]] = "notes.txt"
    /\ Len(outbox) = 1
    /\ outbox[1].attachments = <<[url |-> Candidates[2].href, filename |-> "notes.txt"]>>

(* Claims about the batch *)

BatchOver == pc \in {"returned", "responded"}

\* C1: a batch of n records returns n results in the order of the records:
\* result i has the URL of record i, is a success with the download id when the
\* manager called back with one, and a failure with a message when it called
\* back with lastError or with no id; every record was handed to the manager,
\* whatever became of the records before it.
C1_OneResultPerRecord ==
    BatchOver =>
        LET atts == message.attachments
            n == Len(atts)
        IN  /\ Len(results) = n
            /\ Len(downloads) = n
            /\ Len(callbacks) = n
            /\ \A i \in 1..n :
                  /\ downloads[i].index = i
                  /\ callbacks[i].index = i
                  /\ results[i].url = atts[i].url
                  /\ IF callbacks[i].outcome.kind = "id"
                     THEN results[i] = [url |-> atts[i].url, success |-> TRUE,
                                        downloadId |-> callbacks[i].outcome.id]
                     ELSE results[i] =
                              [url |-> atts[i].url, success |-> FALSE,
                               error |-> IF callbacks[i].outcome.kind = "lastError"
                                         THEN callbacks[i].outcome.message
                                         ELSE "Download failed - no download ID returned"]
            /\ pc = "responded" => response = <<[success |-> TRUE, results |-> results]>>

\* a batch of three whose second download failed has answered
C1_Witness ==
    /\ pc = "responded"
    /\ Len(message.attachments) = 3
    /\ callbacks[2].outcome.kind = "lastError"
    /\ Len(response[1].results) = 3
    /\ response[1].results[1].success
    /\ ~response[1].results[2].success
    /\ response[1].results[3].success

\* C2: the manager is called for one record at a time: at most one call is
\* outstanding, the calls are made in the order of the records, and the call
\* for a record is made only when every earlier call has been called back.
C2_OneCallAtATime ==
    /\ Cardinality(outstanding) <= 1
    /\ \A k \in 1..Len(downloads) : downloads[k].index = k
    /\ Len(downloads) <= Len(callbacks) + 1
    /\ outstanding # {} => Len(downloads) = Len(callbacks) + 1

\* the call for the second record is outstanding, the first was called back
C2_Witness ==
    /\ idx = 2
    /\ Len(callbacks) = 1
    /\ \E call \in outstanding : call.index = 2

(* Claims about the download path setting *)

\* C11: a get request returns "Classroom" when no path was reported saved
\* before it was sent, and otherwise the path last reported saved.
C11_SettingPersisted ==
    \A k \in 1..Len(getLog) :
        getLog[k].returned =
            <<IF getLog[k].saved = "" THEN "Classroom" ELSE getLog[k].saved>>

(* Claims about malformed input *)

lacksProperty(attachment) == ~has(attachment, "filename") \/ ~has(attachment, "url")

Malformed(msg) ==
    \/ ~has(msg, "attachments")
    \/ \E i \in 1..Len(msg.attachments) : lacksProperty(msg.attachments[i])

Unsuccessful(resp) ==
    /\ DOMAIN resp = {"success", "error"}
    /\ resp.success = FALSE
    /\ resp.error # ""

\* C12 as stated: a message without attachments, or with a record that lacks
\* a filename or a url, is answered by {success: false, error} with a message
\* and no results.
C12_MalformedFailsBatch ==
    (pc = "responded" /\ Malformed(message)) => Unsuccessful(response[1])

\* C12 as amended: a message without attachments, or with a null record, is
\* answered by {success: false, error} with a message and no results; with
\* records that are objects the answer is {success: true, results} with one
\* result per record, and a record that lacks a filename or a url has the
\* failure result with the message of the exception, no call to the download
\* manager having been made for it.
C12_OnlyBrokenBatchFails ==
    pc = "responded" =>
        IF ~has(message, "attachments")
              \/ \E i \in 1..Len(message.attachments) : message.attachments[i] = Null
        THEN Unsuccessful(response[1])
        ELSE LET atts == message.attachments
                 resp == response[1]
             IN  /\ DOMAIN resp = {"success", "results"}
                 /\ resp.success = TRUE
                 /\ Len(resp.results) = Len(atts)
                 /\ \A i \in 1..Len(atts) :
                       lacksProperty(atts[i]) =>
                           /\ resp.results[i].success = FALSE
                           /\ resp.results[i].error = executorError(atts[i])
                           /\ \A k \in 1..Len(downloads) : downloads[k].index # i

\* a record without a filename followed by a whole record: the batch has
\* answered with the first failed and the second downloaded
C12_Witness ==
    /\ pc = "responded"
    /\ has(message, "attachments")
    /\ message.attachments = <<NoFilenameRecord, WholeRecord>>
    /\ response[1].success
    /\ ~response[1].results[1].success
    /\ response[1].results[2].success

(* Claims about the session folder *)

\* a label that is missing, empty, or made of whitespace and illegal characters
BlankLabel(msg) ==
    \/ ~has(msg, "assignmentName")
    \/ Trim(CollapseWhitespace(ReplaceEach(msg.assignmentName, InvalidChars, " "))) = ""

\* C13: every blank label gives the session folder the same default name,
\* the one a message without a label gives, followed by "_" and the timestamp.
C13_OneDefaultLabel ==
    (pc # "delivered" /\ BlankLabel(message)) =>
        \E default \in {sanitizeFolderName("Classroom_Downloads")} :
            sessionFolder = default \o "_" \o generateTimestamp(now)

\* C14: two calls of the download manager made for distinct records of a batch
\* are given distinct destination paths.
C14_DistinctDestinations ==
    \A i, j \in 1..Len(downloads) :
        message.attachments[downloads[i].index] # message.attachments[downloads[j].index]
            => downloads[i].options.filename # downloads[j].options.filename

(* Claims about the download button *)

\* C15: while a batch request of downloadSelected is unanswered the download
\* button is disabled, and no second request is unanswered with it.
C15_DisabledWhileInFlight ==
    /\ awaitingResponse > 0 => btnDisabled
    /\ awaitingResponse <= 1

=============================================================================
